---- MODULE Spec2Model ----
(***************************************************************************)
(* A model of dockerfile.py: the Dockerfile builder class.                 *)
(*                                                                         *)
(* A Python str is modelled as a sequence of one-character strings, so     *)
(* that json.dumps, f-string formatting and "".join are computed character *)
(* by character.  A Python value is a record [type, val] carrying its      *)
(* runtime type, so that isinstance() and list.__add__ decide as Python    *)
(* does.  An exception travelling out of an expression is the value        *)
(* [type |-> "raise", val |-> <exception class>].                          *)
(***************************************************************************)
EXTENDS Integers, Sequences, FiniteSets, TLC

VARIABLES
    lines,   \* lines[d]: the list self._lines of Dockerfile object d
    ctor,    \* ctor[d]: the arguments d was constructed with
    calls    \* the calls made so far, in order, each with its outcome

vars == <<lines, ctor, calls>>

\* Number of method calls made on the two builders together, under Spec
MaxCalls == 2

\* The same under SpecFormat, whose calls take every argument shape
MaxFormatCalls == 1

\* The same under SpecRead, whose calls are reads with mutations between them
MaxReadCalls == 3

Dockerfiles == {"d1", "d2"}

----------------------------------------------------------------------------
(* Python values *)

PyNone == [type |-> "NoneType", val |-> <<>>]

PyStr(s) == [type |-> "str", val |-> s]

PyInt(n) == [type |-> "int", val |-> n]

PyList(xs) == [type |-> "list", val |-> xs]

PyTuple(xs) == [type |-> "tuple", val |-> xs]

PyRaise(exc) == [type |-> "raise", val |-> exc]

StringIO(s) == [type |-> "StringIO", val |-> s]

\* "".join(ls) for a sequence ls of character sequences
RECURSIVE Join(_)
Join(ls) == IF ls = <<>> THEN <<>> ELSE Head(ls) \o Join(Tail(ls))

Digit(d) ==
    CASE d = 0 -> "0" [] d = 1 -> "1" [] d = 2 -> "2" [] d = 3 -> "3"
      [] d = 4 -> "4" [] d = 5 -> "5" [] d = 6 -> "6" [] d = 7 -> "7"
      [] d = 8 -> "8" [] d = 9 -> "9"

\* str(n) of a non-negative int
RECURSIVE IntToStr(_)
IntToStr(n) == IF n < 10 THEN <<Digit(n)>> ELSE IntToStr(n \div 10) \o <<Digit(n % 10)>>

\* {v} inside an f-string: format(v, "")
Fmt(v) ==
    CASE v.type = "str" -> v.val
      [] v.type = "int" -> IntToStr(v.val)
      [] v.type = "NoneType" -> <<"N", "o", "n", "e">>

\* json.dumps escaping of one character (ensure_ascii=True); the model's
\* alphabet is printable ASCII plus \n, \r, \t and \f
EscapeChar(c) ==
    CASE c = "\"" -> <<"\\", "\"">>
      [] c = "\\" -> <<"\\", "\\">>
      [] c = "\n" -> <<"\\", "n">>
      [] c = "\r" -> <<"\\", "r">>
      [] c = "\t" -> <<"\\", "t">>
      [] c = "\f" -> <<"\\", "f">>
      [] OTHER -> <<c>>

RECURSIVE EscapeChars(_)
EscapeChars(s) == IF s = <<>> THEN <<>> ELSE EscapeChar(Head(s)) \o EscapeChars(Tail(s))

\* json.dumps(s) of a str
json_dumps_str(s) == <<"\"">> \o EscapeChars(s) \o <<"\"">>

\* ", ".join(parts)
RECURSIVE JoinCommaSpace(_)
JoinCommaSpace(parts) ==
    IF parts = <<>> THEN <<>>
    ELSE IF Len(parts) = 1 THEN parts[1]
    ELSE parts[1] \o <<",", " ">> \o JoinCommaSpace(Tail(parts))

\* json.dumps of one item of a list
json_dumps_item(v) ==
    CASE v.type = "str" -> json_dumps_str(v.val)
      [] v.type = "int" -> IntToStr(v.val)
      [] v.type = "NoneType" -> <<"n", "u", "l", "l">>

\* json.dumps(obj), obj a str or a list of str; an exception raised while
\* the argument was evaluated propagates
json_dumps(obj) ==
    CASE obj.type = "raise" -> obj
      [] obj.type = "list" ->
            PyStr(<<"[">> \o JoinCommaSpace([i \in 1..Len(obj.val) |-> json_dumps_item(obj.val[i])])
                  \o <<"]">>)
      [] OTHER -> PyStr(json_dumps_item(obj))

\* left + right for a list left: list.__add__ accepts only a list
list_add(left, right) ==
    IF right.type = "list" THEN PyList(left.val \o right.val)
    ELSE PyRaise("TypeError")

----------------------------------------------------------------------------
(* The literal text of the f-strings *)

SP == <<" ">>
L_syntax == <<"#", " ", "s", "y", "n", "t", "a", "x", ":", " ">>
L_escape == <<"#", " ", "e", "s", "c", "a", "p", "e", ":", " ">>
L_chown == <<"-", "-", "c", "h", "o", "w", "n", "=">>
L_from == <<"-", "-", "f", "r", "o", "m", "=">>
L_platform == <<"-", "-", "p", "l", "a", "t", "f", "o", "r", "m", "=">>
L_as == <<" ", "a", "s", " ">>
L_ADD == <<"A", "D", "D", " ">>
L_ARG == <<"A", "R", "G", " ">>
L_COPY == <<"C", "O", "P", "Y", " ">>
L_CMD == <<"C", "M", "D", " ">>
L_ENTRYPOINT == <<"E", "N", "T", "R", "Y", "P", "O", "I", "N", "T", " ">>
L_ENV == <<"E", "N", "V", " ">>
L_EXPOSE == <<"E", "X", "P", "O", "S", "E", " ">>
L_FROM == <<"F", "R", "O", "M", " ">>
L_LABEL == <<"L", "A", "B", "E", "L", " ">>
L_RUN == <<"R", "U", "N", " ">>
L_SHELL == <<"S", "H", "E", "L", "L", " ">>
L_USER == <<"U", "S", "E", "R", " ">>
L_VOLUME == <<"V", "O", "L", "U", "M", "E", " ">>
L_WORKDIR == <<"W", "O", "R", "K", "D", "I", "R", " ">>

----------------------------------------------------------------------------
(* Construction *)

\* Dockerfile.__init__: the value of self._lines when the constructor returns
InitLines(syntax, escape) ==
    (IF syntax.type # "NoneType" THEN <<L_syntax \o Fmt(syntax)>> ELSE <<>>)
    \o (IF escape.type # "NoneType" THEN <<L_escape \o Fmt(escape)>> ELSE <<>>)

\* The constructor arguments the model draws from
SyntaxArgs == {PyNone, PyStr(<<"v", "1">>)}
EscapeArgs == {PyNone, PyStr(<<"^">>)}

Init ==
    /\ ctor \in [Dockerfiles -> [syntax : SyntaxArgs, escape : EscapeArgs]]
    /\ lines = [d \in Dockerfiles |-> InitLines(ctor[d].syntax, ctor[d].escape)]
    /\ calls = <<>>

----------------------------------------------------------------------------
(* How a call ends *)

Call(self, op, args, raised, ret) ==
    [op |-> op, self |-> self, args |-> args, raised |-> raised, ret |-> ret]

\* The method returns ret, leaving newlines in self._lines
Returns(self, op, args, newlines, ret) ==
    /\ lines' = [lines EXCEPT ![self] = newlines]
    /\ calls' = Append(calls, Call(self, op, args, "none", ret))
    /\ UNCHANGED ctor

\* The method raises exc, with newlines in self._lines at that moment
Raises(self, op, args, newlines, exc) ==
    /\ lines' = [lines EXCEPT ![self] = newlines]
    /\ calls' = Append(calls, Call(self, op, args, exc, PyNone))
    /\ UNCHANGED ctor

\* self._lines.append(text), text the value of an f-string whose evaluation
\* may have raised: the append runs only when the argument evaluated
AppendLine(self, op, args, text) ==
    IF text.type = "raise"
    THEN Raises(self, op, args, lines[self], text.val)
    ELSE Returns(self, op, args, Append(lines[self], text.val), PyNone)

\* f"{prefix}{part}" where evaluating part may have raised
FCat(prefix, part) ==
    IF part.type = "raise" THEN part ELSE PyStr(prefix \o part.val)

----------------------------------------------------------------------------
(* Reading the builder *)

\* A render that consumes the lines it returns
str_Draining(self) ==
    Returns(self, "__str__", <<>>, <<>>, PyStr(Join(lines[self])))

\* Dockerfile.__str__
__str__(self) ==
    Returns(self, "__str__", <<>>, lines[self], PyStr(Join(lines[self])))

\* Dockerfile.as_fileobj: a StringIO over str(self)
as_fileobj(self) ==
    Returns(self, "as_fileobj", <<>>, lines[self], StringIO(Join(lines[self])))

\* self._lines = dockerfile._lines, the + of += lost
include_Assigning(self, dockerfile) ==
    Returns(self, "include", <<dockerfile>>, lines[dockerfile], PyNone)

\* Dockerfile.include: self._lines += dockerfile._lines
include(self, dockerfile) ==
    Returns(self, "include", <<dockerfile>>, lines[self] \o lines[dockerfile], PyNone)

----------------------------------------------------------------------------
(* Dockerfile commands *)

ADD(self, src, dest, chown) ==
    LET chown_param == IF chown.type # "NoneType"
                       THEN L_chown \o Fmt(chown) \o SP
                       ELSE <<>>
    IN  AppendLine(self, "ADD", <<src, dest, chown>>,
                   PyStr(L_ADD \o chown_param \o Fmt(src) \o SP \o Fmt(dest)))

ARG(self, varname, default_value) ==
    LET default_param == IF default_value.type # "NoneType"
                         THEN <<"=">> \o json_dumps(default_value).val
                         ELSE <<>>
    IN  AppendLine(self, "ARG", <<varname, default_value>>,
                   PyStr(L_ARG \o Fmt(varname) \o default_param))

\* The options appended as a line of their own before src is looked at
COPY_AppendingEarly(self, src, dest, from_, chown) ==
    LET from_param == IF from_.type # "NoneType"
                      THEN L_from \o Fmt(from_) \o SP
                      ELSE <<>>
        chown_param == IF chown.type # "NoneType"
                       THEN L_chown \o Fmt(chown) \o SP
                       ELSE <<>>
        started == Append(lines[self], L_COPY \o from_param \o chown_param)
    IN  IF src.type = "str"
        THEN Returns(self, "COPY", <<src, dest, from_, chown>>,
                     Append(lines[self], L_COPY \o from_param \o chown_param
                                         \o Fmt(src) \o SP \o Fmt(dest)), PyNone)
        ELSE IF src.type = "list"
        THEN Returns(self, "COPY", <<src, dest, from_, chown>>,
                     Append(lines[self], L_COPY \o from_param \o chown_param
                                         \o json_dumps(list_add(src, PyList(<<dest>>))).val),
                     PyNone)
        ELSE Raises(self, "COPY", <<src, dest, from_, chown>>, started, "ValueError")

\* --chown written before --from
COPY_ChownFirst(self, src, dest, from_, chown) ==
    LET from_param == IF from_.type # "NoneType"
                      THEN L_from \o Fmt(from_) \o SP
                      ELSE <<>>
        chown_param == IF chown.type # "NoneType"
                       THEN L_chown \o Fmt(chown) \o SP
                       ELSE <<>>
        src_and_dest == IF src.type = "str"
                        THEN PyStr(Fmt(src) \o SP \o Fmt(dest))
                        ELSE IF src.type = "list"
                        THEN json_dumps(list_add(src, PyList(<<dest>>)))
                        ELSE PyRaise("ValueError")
    IN  AppendLine(self, "COPY", <<src, dest, from_, chown>>,
                   FCat(L_COPY \o chown_param \o from_param, src_and_dest))

COPY(self, src, dest, from_, chown) ==
    LET from_param == IF from_.type # "NoneType"
                      THEN L_from \o Fmt(from_) \o SP
                      ELSE <<>>
        chown_param == IF chown.type # "NoneType"
                       THEN L_chown \o Fmt(chown) \o SP
                       ELSE <<>>
        src_and_dest == IF src.type = "str"
                        THEN PyStr(Fmt(src) \o SP \o Fmt(dest))
                        ELSE IF src.type = "list"
                        THEN json_dumps(list_add(src, PyList(<<dest>>)))
                        ELSE PyRaise("ValueError")
    IN  AppendLine(self, "COPY", <<src, dest, from_, chown>>,
                   FCat(L_COPY \o from_param \o chown_param, src_and_dest))

CMD(self, command, args) ==
    IF Len(args.val) = 0
    THEN AppendLine(self, "CMD", <<command, args>>, PyStr(L_CMD \o Fmt(command)))
    ELSE LET params == json_dumps(list_add(PyList(<<command>>), args))
         IN  AppendLine(self, "CMD", <<command, args>>, FCat(L_CMD, params))

ENTRYPOINT(self, command, args) ==
    IF Len(args.val) = 0
    THEN AppendLine(self, "ENTRYPOINT", <<command, args>>,
                    PyStr(L_ENTRYPOINT \o Fmt(command)))
    ELSE LET params == json_dumps(list_add(PyList(<<command>>), args))
         IN  AppendLine(self, "ENTRYPOINT", <<command, args>>, FCat(L_ENTRYPOINT, params))

ENV(self, varname, value) ==
    AppendLine(self, "ENV", <<varname, value>>,
               PyStr(L_ENV \o Fmt(varname) \o <<"=">> \o json_dumps(value).val))

EXPOSE(self, port, protocol) ==
    AppendLine(self, "EXPOSE", <<port, protocol>>,
               PyStr(L_EXPOSE \o Fmt(port) \o <<"/">> \o Fmt(protocol)))

FROM(self, base_image, as_image, platform) ==
    LET platform_param == IF platform.type # "NoneType"
                          THEN L_platform \o Fmt(platform)
                          ELSE <<>>
        as_image_param == IF as_image.type # "NoneType"
                          THEN L_as \o Fmt(as_image)
                          ELSE <<>>
    IN  AppendLine(self, "FROM", <<base_image, as_image, platform>>,
                   PyStr(L_FROM \o platform_param \o Fmt(base_image) \o as_image_param))

LABEL(self, key, value) ==
    AppendLine(self, "LABEL", <<key, value>>,
               PyStr(L_LABEL \o json_dumps(key).val \o <<"=">> \o json_dumps(value).val))

RUN(self, command, args) ==
    IF Len(args.val) = 0
    THEN AppendLine(self, "RUN", <<command, args>>, PyStr(L_RUN \o Fmt(command)))
    ELSE LET params == json_dumps(list_add(PyList(<<command>>), args))
         IN  AppendLine(self, "RUN", <<command, args>>, FCat(L_RUN, params))

SHELL(self, executable, params) ==
    AppendLine(self, "SHELL", <<executable, params>>,
               FCat(L_SHELL, json_dumps(list_add(PyList(<<executable>>), params))))

USER(self, user, group) ==
    LET group_param == IF group.type # "NoneType"
                       THEN <<":">> \o Fmt(group)
                       ELSE <<>>
    IN  AppendLine(self, "USER", <<user, group>>,
                   PyStr(L_USER \o Fmt(user) \o group_param))

VOLUME(self, path, additional_paths) ==
    LET paths == json_dumps(list_add(PyList(<<path>>), additional_paths))
    IN  AppendLine(self, "VOLUME", <<path, additional_paths>>, FCat(L_VOLUME, paths))

WORKDIR(self, path) ==
    AppendLine(self, "WORKDIR", <<path>>, PyStr(L_WORKDIR \o Fmt(path)))

----------------------------------------------------------------------------------------------------------------------------------------
(* The arguments the calls are made with *)

\* Plain text, and text that json.dumps has to escape
Plain == PyStr(<<"a">>)
Quoted == PyStr(<<"x", "\"", "\\", "\n", " ", "y">>)
Texts == {Plain, Quoted}
Names == {PyStr(<<"K">>)}
Paths == {PyStr(<<"/", "d">>)}
Optional(S) == {PyNone} \cup S

\* *args: the tuple of the extra positional arguments, none, one or two
NoArgs == PyTuple(<<>>)
OneArg == PyTuple(<<PyStr(<<"h", "i">>)>>)
VarArgs == {NoArgs, OneArg, PyTuple(<<Plain, Quoted>>)}

\* src of COPY: a path, a list of paths (empty, or of two), and an int
PathList == PyList(<<Plain, Quoted>>)
CopySources == {Plain, PyList(<<>>), PathList, PyInt(42)}

Ports == {PyInt(80), PyInt(8080)}
Protocols == {PyStr(<<"t", "c", "p">>), PyStr(<<"u", "d", "p">>)}

\* Whether another call is made, under Spec and under SpecFormat
More == Len(calls) < MaxCalls
MoreFormat == Len(calls) < MaxFormatCalls
MoreRead == Len(calls) < MaxReadCalls

\* Sequences of calls on two builders, each method with one or two argument
\* shapes
Next ==
    \E self \in Dockerfiles :
        \/ More /\ __str__(self)
        \/ More /\ as_fileobj(self)
        \/ More /\ \E dockerfile \in Dockerfiles : include(self, dockerfile)
        \/ More /\ \E src \in Names, dest \in Paths, chown \in Names :
                ADD(self, src, dest, chown)
        \/ More /\ \E varname \in Names : ARG(self, varname, Quoted)
        \/ More /\ \E src \in {PathList, PyInt(42)}, dest \in Paths :
                COPY(self, src, dest, PyNone, PyNone)
        \/ More /\ \E command \in Names, args \in {NoArgs, OneArg} : CMD(self, command, args)
        \/ More /\ \E command \in Names : ENTRYPOINT(self, command, NoArgs)
        \/ More /\ \E varname \in Names : ENV(self, varname, Plain)
        \/ More /\ \E protocol \in Protocols : EXPOSE(self, PyInt(8080), protocol)
        \/ More /\ \E base_image \in Names, as_image \in Names :
                FROM(self, base_image, as_image, PyNone)
        \/ More /\ \E key \in Names : LABEL(self, key, Quoted)
        \/ More /\ \E command \in Names : RUN(self, command, OneArg)
        \/ More /\ \E executable \in Names : SHELL(self, executable, NoArgs)
        \/ More /\ \E user \in Names : USER(self, user, PyNone)
        \/ More /\ \E path \in Paths : VOLUME(self, path, OneArg)
        \/ More /\ \E path \in Paths : WORKDIR(self, path)

Spec == Init /\ [][Next]_vars

\* Calls with every argument shape
NextFormat ==
    \E self \in Dockerfiles :
        \/ MoreFormat /\ __str__(self)
        \/ MoreFormat /\ as_fileobj(self)
        \/ MoreFormat /\ \E dockerfile \in Dockerfiles : include(self, dockerfile)
        \/ MoreFormat /\ \E src \in Names, dest \in Paths, chown \in Optional(Names) :
                ADD(self, src, dest, chown)
        \/ MoreFormat /\ \E varname \in Names, default_value \in Optional(Texts) :
                ARG(self, varname, default_value)
        \/ MoreFormat /\ \E src \in CopySources, dest \in Paths, from_ \in Optional(Names),
              chown \in Optional(Names) :
                COPY(self, src, dest, from_, chown)
        \/ MoreFormat /\ \E command \in Names, args \in VarArgs : CMD(self, command, args)
        \/ MoreFormat /\ \E command \in Names, args \in VarArgs : ENTRYPOINT(self, command, args)
        \/ MoreFormat /\ \E varname \in Names, value \in Texts : ENV(self, varname, value)
        \/ MoreFormat /\ \E port \in Ports, protocol \in Protocols : EXPOSE(self, port, protocol)
        \/ MoreFormat /\ \E base_image \in Names, as_image \in Optional(Names),
              platform \in Optional(Names) :
                FROM(self, base_image, as_image, platform)
        \/ MoreFormat /\ \E key \in Texts, value \in Texts : LABEL(self, key, value)
        \/ MoreFormat /\ \E command \in Names, args \in VarArgs : RUN(self, command, args)
        \/ MoreFormat /\ \E executable \in Names, params \in VarArgs : SHELL(self, executable, params)
        \/ MoreFormat /\ \E user \in Names, group \in Optional(Names) : USER(self, user, group)
        \/ MoreFormat /\ \E path \in Paths, additional_paths \in VarArgs :
                VOLUME(self, path, additional_paths)
        \/ MoreFormat /\ \E path \in Paths : WORKDIR(self, path)

SpecFormat == Init /\ [][NextFormat]_vars

\* Reads of two builders with include calls and directive calls, returning
\* and raising, made between them
NextRead ==
    \E self \in Dockerfiles :
        \/ MoreRead /\ __str__(self)
        \/ MoreRead /\ as_fileobj(self)
        \/ MoreRead /\ \E dockerfile \in Dockerfiles : include(self, dockerfile)
        \/ MoreRead /\ \E src \in {PathList, PyInt(42)}, dest \in Paths :
                COPY(self, src, dest, PyNone, PyNone)
        \/ MoreRead /\ \E command \in Names, args \in {NoArgs, OneArg} :
                CMD(self, command, args)
        \/ MoreRead /\ \E varname \in Names : ENV(self, varname, Quoted)
        \/ MoreRead /\ \E base_image \in Names, as_image \in Names :
                FROM(self, base_image, as_image, PyNone)
        \/ MoreRead /\ \E path \in Paths : WORKDIR(self, path)

SpecRead == Init /\ [][NextRead]_vars

----------------------------------------------------------------------------
(* The documented line formats, from the table of directives *)

Last == calls[Len(calls)]

\* The call a step makes
Cur == calls'[Len(calls')]

DirectiveOps ==
    {"ADD", "ARG", "COPY", "CMD", "ENTRYPOINT", "ENV", "EXPOSE", "FROM", "LABEL",
     "RUN", "SHELL", "USER", "VOLUME", "WORKDIR"}

IsRead(c) == c.op \in {"__str__", "as_fileobj"}

IsPrefix(p, s) == Len(p) <= Len(s) /\ SubSeq(s, 1, Len(p)) = p

Given(v) == v.type # "NoneType"

\* <prefix><value><suffix> when the optional argument is given, else nothing
Clause(prefix, v, suffix) == IF Given(v) THEN prefix \o v.val \o suffix ELSE <<>>

JsonQuoted(v) == <<"\"">> \o EscapeChars(v.val) \o <<"\"">>

RECURSIVE JsonItems(_)
JsonItems(vs) ==
    IF vs = <<>> THEN <<>>
    ELSE JsonQuoted(Head(vs)) \o (IF Len(vs) > 1 THEN <<",", " ">> ELSE <<>>)
         \o JsonItems(Tail(vs))

JsonArray(vs) == <<"[">> \o JsonItems(vs) \o <<"]">>

\* Shell form without extra args, exec form with them
TwoForm(keyword, command, args) ==
    IF args.val = <<>> THEN keyword \o command.val
    ELSE keyword \o JsonArray(<<command>> \o args.val)

\* The one documented error: COPY whose src is neither a path nor a list
DocumentedError(c) == c.op = "COPY" /\ c.args[1].type \notin {"str", "list"}

\* The line the table documents for directive call c
DocumentedLine(c) ==
    LET a == c.args
    IN  CASE c.op = "ADD" -> L_ADD \o Clause(L_chown, a[3], SP) \o a[1].val \o SP \o a[2].val
          [] c.op = "ARG" ->
                L_ARG \o a[1].val \o (IF Given(a[2]) THEN <<"=">> \o JsonQuoted(a[2]) ELSE <<>>)
          [] c.op = "COPY" ->
                L_COPY \o Clause(L_from, a[3], SP) \o Clause(L_chown, a[4], SP)
                \o (IF a[1].type = "str" THEN a[1].val \o SP \o a[2].val
                    ELSE JsonArray(a[1].val \o <<a[2]>>))
          [] c.op = "CMD" -> TwoForm(L_CMD, a[1], a[2])
          [] c.op = "ENTRYPOINT" -> TwoForm(L_ENTRYPOINT, a[1], a[2])
          [] c.op = "ENV" -> L_ENV \o a[1].val \o <<"=">> \o JsonQuoted(a[2])
          [] c.op = "EXPOSE" -> L_EXPOSE \o IntToStr(a[1].val) \o <<"/">> \o a[2].val
          [] c.op = "FROM" ->
                L_FROM \o Clause(L_platform, a[3], <<>>) \o a[1].val
                \o Clause(L_as, a[2], <<>>)
          [] c.op = "LABEL" -> L_LABEL \o JsonQuoted(a[1]) \o <<"=">> \o JsonQuoted(a[2])
          [] c.op = "RUN" -> TwoForm(L_RUN, a[1], a[2])
          [] c.op = "SHELL" -> L_SHELL \o JsonArray(<<a[1]>> \o a[2].val)
          [] c.op = "USER" -> L_USER \o a[1].val \o Clause(<<":">>, a[2], <<>>)
          [] c.op = "VOLUME" -> L_VOLUME \o JsonArray(<<a[1]>> \o a[2].val)
          [] c.op = "WORKDIR" -> L_WORKDIR \o a[1].val

\* The last line of builder d
LastLine(d) == lines[d][Len(lines[d])]

\* The documented lines of the directive calls i..j made on d, in call order;
\* with onlyReturned, of those of them that returned
RECURSIVE DocumentedLines(_, _, _, _)
DocumentedLines(d, i, j, onlyReturned) ==
    IF i > j THEN <<>>
    ELSE LET c == calls[i]
             counted == /\ c.self = d
                        /\ c.op \in DirectiveOps
                        /\ ~DocumentedError(c)
                        /\ (onlyReturned => c.raised = "none")
         IN  (IF counted THEN <<DocumentedLine(c)>> ELSE <<>>)
             \o DocumentedLines(d, i + 1, j, onlyReturned)

\* No include call was made on d among calls i..j
NoInclude(d, i, j) == \A k \in i..j : ~(calls[k].op = "include" /\ calls[k].self = d)

----------------------------------------------------------------------------
(* Claims *)

\* C1: every render returns the header comments followed by the documented
\* line of each directive call made on the builder before it, in call order,
\* none dropped, duplicated, reordered or merged.
C1_RenderIsConcatenationOfCalls ==
    \A i \in 1..Len(calls) :
        LET d == calls[i].self
        IN  calls[i].op = "__str__" /\ NoInclude(d, 1, i)
            => calls[i].ret.val
                 = Join(InitLines(ctor[d].syntax, ctor[d].escape))
                   \o Join(DocumentedLines(d, 1, i - 1, FALSE))

IsSyntaxComment(line) == IsPrefix(L_syntax, line)
IsEscapeComment(line) == IsPrefix(L_escape, line)

\* C3: in every state a builder's syntax and escape comments are there only
\* if the builder was constructed with the argument, the syntax comment comes
\* before the escape comment, and both come before every directive line.
C3_HeaderCommentsFirst ==
    \A d \in Dockerfiles :
        LET ls == lines[d]
            n == Len(ls)
        IN  /\ (\E i \in 1..n : IsSyntaxComment(ls[i])) => Given(ctor[d].syntax)
            /\ (\E i \in 1..n : IsEscapeComment(ls[i])) => Given(ctor[d].escape)
            /\ \A i, j \in 1..n : IsSyntaxComment(ls[i]) /\ IsEscapeComment(ls[j]) => i < j
            /\ \A i, j \in 1..n :
                  /\ IsSyntaxComment(ls[i]) \/ IsEscapeComment(ls[i])
                  /\ ~(IsSyntaxComment(ls[j]) \/ IsEscapeComment(ls[j]))
                  => i < j

\* C4: a CMD, ENTRYPOINT or RUN call returns and leaves as the builder's last
\* line the shell form when it has no extra args, the exec form (the JSON
\* array of the command and the args) when it has.
C4_TwoFormRule ==
    calls # <<>> /\ Last.op \in {"CMD", "ENTRYPOINT", "RUN"}
    => /\ Last.raised = "none"
       /\ lines[Last.self] # <<>>
       /\ LastLine(Last.self) = TwoForm(CASE Last.op = "CMD" -> L_CMD
                                          [] Last.op = "ENTRYPOINT" -> L_ENTRYPOINT
                                          [] Last.op = "RUN" -> L_RUN,
                                        Last.args[1], Last.args[2])

\* C5: a SHELL or VOLUME call, with any number of variadic arguments, returns
\* and leaves as the builder's last line the keyword and the JSON array of
\* its first argument followed by the variadic ones.
C5_AlwaysArrayForm ==
    calls # <<>> /\ Last.op \in {"SHELL", "VOLUME"}
    => /\ Last.raised = "none"
       /\ lines[Last.self] # <<>>
       /\ LastLine(Last.self)
            = (IF Last.op = "SHELL" THEN L_SHELL ELSE L_VOLUME)
              \o JsonArray(<<Last.args[1]>> \o Last.args[2].val)

\* C7: no call raises, except COPY with a src that is neither a path nor a
\* list of paths.
C7_OnlyCopyShapeFails ==
    \A i \in 1..Len(calls) : calls[i].raised # "none" => DocumentedError(calls[i])

\* C10: a directive call makes the builder's line sequence longer by exactly
\* one (COPY with an ill-shaped src apart, which is documented to raise), and
\* every call leaves each builder's earlier lines in place as a prefix.
C10_AppendOnly ==
    [][calls' # calls
       => /\ Cur.op \in DirectiveOps /\ ~DocumentedError(Cur)
             => Len(lines'[Cur.self]) = Len(lines[Cur.self]) + 1
          /\ \A d \in Dockerfiles : IsPrefix(lines[d], lines'[d])]_vars

\* C2: an include call leaves in the target its earlier lines followed by
\* the lines the other builder has at the call, so that the target's render
\* is its earlier render followed by the other's; and a call on one builder,
\* of any method, leaves the lines and the render of every other builder as
\* they were.
C2_IncludeCopies ==
    [][calls' # calls
       => /\ Cur.op = "include"
             => /\ Cur.raised = "none"
                /\ lines'[Cur.self] = lines[Cur.self] \o lines[Cur.args[1]]
                /\ Join(lines'[Cur.self]) = Join(lines[Cur.self]) \o Join(lines[Cur.args[1]])
          /\ \A d \in Dockerfiles \ {Cur.self} :
                lines'[d] = lines[d] /\ Join(lines'[d]) = Join(lines[d])]_vars

\* d1 included d2, which had lines, and d2 was given a line afterwards that
\* d1 does not have
C2_Witness ==
    /\ Len(calls) = 2
    /\ calls[1].op = "include" /\ calls[1].self = "d1" /\ calls[1].args[1] = "d2"
    /\ calls[2].op = "WORKDIR" /\ calls[2].self = "d2" /\ calls[2].raised = "none"
    /\ Given(ctor["d1"].escape) /\ Given(ctor["d2"].syntax)
    /\ lines["d1"] = InitLines(ctor["d1"].syntax, ctor["d1"].escape)
                     \o InitLines(ctor["d2"].syntax, ctor["d2"].escape)
    /\ Len(lines["d2"]) = Len(InitLines(ctor["d2"].syntax, ctor["d2"].escape)) + 1

\* C6: COPY with a path src appends 'COPY [--from=<stage> ][--chown=<owner> ]
\* <src> <dest>', with a list src the same options followed by the JSON array
\* of the src items and dest, and with any other src raises ValueError and
\* appends nothing; --from comes before --chown, and each is left out exactly
\* when its argument is not given.
C6_CopyDispatch ==
    [][calls' # calls /\ Cur.op = "COPY"
       => LET d == Cur.self
              src == Cur.args[1]
              dest == Cur.args[2]
              from_ == Cur.args[3]
              chown == Cur.args[4]
              options == (IF Given(from_) THEN L_from \o from_.val \o SP ELSE <<>>)
                         \o (IF Given(chown) THEN L_chown \o chown.val \o SP ELSE <<>>)
          IN  CASE src.type = "str" ->
                     /\ Cur.raised = "none"
                     /\ lines'[d] = Append(lines[d], L_COPY \o options \o src.val \o SP \o dest.val)
                [] src.type = "list" ->
                     /\ Cur.raised = "none"
                     /\ lines'[d] = Append(lines[d], L_COPY \o options
                                                     \o JsonArray(src.val \o <<dest>>))
                [] OTHER ->
                     /\ Cur.raised = "ValueError"
                     /\ lines'[d] = lines[d]]_vars

\* A COPY of a list of two paths with both options given has appended its line
C6_Witness ==
    /\ calls # <<>>
    /\ Last.op = "COPY" /\ Last.raised = "none"
    /\ Last.args[1].type = "list" /\ Len(Last.args[1].val) = 2
    /\ Given(Last.args[3]) /\ Given(Last.args[4])
    /\ IsPrefix(L_COPY \o L_from, LastLine(Last.self))

\* C8: a call that raises leaves every builder's lines, and so its render, as
\* they were before the call.
C8_NoPartialApplication ==
    [][calls' # calls /\ Cur.raised # "none"
       => \A d \in Dockerfiles : lines'[d] = lines[d] /\ Join(lines'[d]) = Join(lines[d])]_vars

\* A COPY on d1 raised, and the WORKDIR call made on d1 after it appended its
\* line to the lines d1 was constructed with
C8_Witness ==
    /\ Len(calls) = 2
    /\ calls[1].op = "COPY" /\ calls[1].self = "d1" /\ calls[1].raised = "ValueError"
    /\ calls[2].op = "WORKDIR" /\ calls[2].self = "d1" /\ calls[2].raised = "none"
    /\ lines["d1"] = Append(InitLines(ctor["d1"].syntax, ctor["d1"].escape),
                            DocumentedLine(calls[2]))

\* Calls i < j are reads of the same builder
ReadPair(i, j) ==
    /\ i < j
    /\ IsRead(calls[i]) /\ IsRead(calls[j])
    /\ calls[i].self = calls[j].self

\* The lines builder d is documented to hold after the first n calls: those
\* it was constructed with, then for each call made on it that returned, the
\* documented line of a directive call and, of an include call, the lines the
\* included builder held at that call
RECURSIVE DocumentedState(_, _)
DocumentedState(d, n) ==
    IF n = 0 THEN InitLines(ctor[d].syntax, ctor[d].escape)
    ELSE LET c == calls[n]
         IN  DocumentedState(d, n - 1)
             \o (IF c.self # d \/ c.raised # "none" THEN <<>>
                 ELSE IF c.op = "include" THEN DocumentedState(c.args[1], n - 1)
                 ELSE IF c.op \in DirectiveOps THEN <<DocumentedLine(c)>>
                 ELSE <<>>)

\* The lines calls i..j are documented to add to builder d
RECURSIVE DocumentedAdditions(_, _, _)
DocumentedAdditions(d, i, j) ==
    IF i > j THEN <<>>
    ELSE LET c == calls[i]
         IN  (IF c.self # d \/ c.raised # "none" THEN <<>>
              ELSE IF c.op = "include" THEN DocumentedState(c.args[1], i - 1)
              ELSE IF c.op \in DirectiveOps THEN <<DocumentedLine(c)>>
              ELSE <<>>)
             \o DocumentedAdditions(d, i + 1, j)

\* C9: __str__ and as_fileobj return, leave the lines as they are, and yield
\* the concatenation of the builder's lines, as_fileobj as the text of a
\* stream; a read yields the text of the read before it followed by the lines
\* of the directive calls and of the include calls that returned on the
\* builder in between, so the same text when there were none.
C9_ReadsArePure ==
    /\ [][calls' # calls /\ IsRead(Cur)
          => /\ Cur.raised = "none"
             /\ lines' = lines
             /\ Cur.ret.type = (IF Cur.op = "__str__" THEN "str" ELSE "StringIO")
             /\ Cur.ret.val = Join(lines[Cur.self])]_vars
    /\ [](\A i, j \in 1..Len(calls) :
            ReadPair(i, j)
            => calls[j].ret.val
                 = calls[i].ret.val
                   \o Join(DocumentedAdditions(calls[i].self, i + 1, j - 1)))

\* d1, constructed with the syntax comment, was rendered, then included d2,
\* constructed with the escape comment, and was then read as a stream: the
\* stream holds the rendered text followed by d2's comment
C9_Witness ==
    /\ Len(calls) = 3
    /\ calls[1].op = "__str__" /\ calls[1].self = "d1"
    /\ calls[2].op = "include" /\ calls[2].self = "d1" /\ calls[2].args[1] = "d2"
    /\ calls[3].op = "as_fileobj" /\ calls[3].self = "d1"
    /\ Given(ctor["d1"].syntax) /\ ~Given(ctor["d1"].escape)
    /\ ~Given(ctor["d2"].syntax) /\ Given(ctor["d2"].escape)
    /\ calls[1].ret.val = L_syntax \o ctor["d1"].syntax.val
    /\ calls[3].ret.val = calls[1].ret.val \o L_escape \o ctor["d2"].escape.val
    /\ Len(lines["d1"]) = 2

\* d1 was rendered, was given a FROM line, and was rendered again: the second
\* text is the first followed by the line
C9_WitnessDirective ==
    /\ Len(calls) = 3
    /\ calls[1].op = "__str__" /\ calls[1].self = "d1"
    /\ calls[2].op = "FROM" /\ calls[2].self = "d1" /\ calls[2].raised = "none"
    /\ calls[3].op = "__str__" /\ calls[3].self = "d1"
    /\ Given(ctor["d1"].syntax)
    /\ calls[3].ret.val = calls[1].ret.val \o DocumentedLine(calls[2])
    /\ calls[3].ret.val # calls[1].ret.val

====
